---- MODULE Spec2Model ----
(***************************************************************************)
(* Frogger, final iteration (src/unnamed/part_000, lines 245-1330): the    *)
(* State record, the entity factories, the movement and wrap functions,   *)
(* handleCollisions, reduceState, resetState and the startGame/updateView  *)
(* driver that feeds the merged action stream to the reducer.              *)
(*                                                                         *)
(* Lengths are fixed-point: one pixel is U units, so that the speeds of   *)
(* the source (1.05, 1.365, 0.85, 0.6, 1.1025, ...) are exact integers.   *)
(* carSpeed and multiplier are exact rationals [n, d] in lowest terms.    *)
(* The source computes in IEEE doubles; the model computes in exact       *)
(* arithmetic.                                                             *)
(***************************************************************************)
EXTENDS Integers, Sequences, FiniteSets, TLC

\* one pixel = U units (200 makes 1.365 exact, 4000 makes 1.43325 exact)
U == 20 * 200

Px(n) == n * U

Abs(a) == IF a < 0 THEN -a ELSE a

RECURSIVE GCD(_, _)
GCD(a, b) == IF b = 0 THEN a ELSE GCD(b, a % b)

\* an exact rational n/d in lowest terms
Rat(n, d) == [n |-> n \div GCD(n, d), d |-> d \div GCD(n, d)]

RatMul(p, q) == Rat(p.n * q.n, p.d * q.d)

\* a rational number of pixels is a whole number of units
RatExact(q) == q.d <= U /\ U % q.d = 0

RatUnits(q) == q.n * (U \div q.d)

\* the value null of `Frog | null` and `Crocodile | null`
NULL == [id |-> "null"]

\* width of the canvas in pixels (the literal 600 of the factories and wraps)
Width == 600

Rows == 1..6

\* ---------------------------------------------------------------------
\* Entity factories
\* ---------------------------------------------------------------------

\* mutant: the river reaches up to the top of the canvas
createRiver_FromTop ==
  [id |-> "river", pos |-> [x |-> Px(0), y |-> Px(0)], createTime |-> 0,
   radiusX |-> Px(300), radiusY |-> Px(140)]

createRiver ==
  [id |-> "river", pos |-> [x |-> Px(0), y |-> Px(40)], createTime |-> 0,
   radiusX |-> Px(300), radiusY |-> Px(120)]

createFrog(x, y, isLadyFrog) ==
  [id |-> IF isLadyFrog THEN "ladyFrog" ELSE "frog",
   pos |-> [x |-> Px(x), y |-> Px(y)], createTime |-> 0, radius |-> Px(10)]

\* speed: s.carSpeed[row_number - 1] * s.multiplier, in units per tick
CarSpeedRat(s, row_number) == RatMul(s.carSpeed[row_number], s.multiplier)

createCar(s, row_number, direction) ==
  [id |-> "car" \o ToString(s.carCount),
   pos |-> [x |-> IF direction = 0 THEN Px(Width) * direction
                  ELSE Px(Width) * direction - Px(20),
            y |-> Px(290 + row_number * 40)],
   createTime |-> s.time,
   radius |-> Px(10),
   direction |-> direction,
   speed |-> RatUnits(CarSpeedRat(s, row_number))]

\* mutant: the id is built from the row instead of the counter
createPlank_IdByRow(s, row_number, direction, speed, radiusX, radiusY) ==
  [id |-> "plank" \o ToString(row_number),
   pos |-> [x |-> IF direction = 0 THEN Px(Width) * direction
                  ELSE Px(Width) * direction - radiusX * 2,
            y |-> Px(10 + row_number * 40)],
   createTime |-> s.time,
   radiusX |-> radiusX, radiusY |-> radiusY,
   direction |-> direction, speed |-> speed]

\* mutant: cars and planks draw their ids from one sequence
createPlank_SharedIds(s, row_number, direction, speed, radiusX, radiusY) ==
  [id |-> "plank" \o ToString(s.plankCount + s.carCount),
   pos |-> [x |-> IF direction = 0 THEN Px(Width) * direction
                  ELSE Px(Width) * direction - radiusX * 2,
            y |-> Px(10 + row_number * 40)],
   createTime |-> s.time,
   radiusX |-> radiusX, radiusY |-> radiusY,
   direction |-> direction, speed |-> speed]

createPlank(s, row_number, direction, speed, radiusX, radiusY) ==
  [id |-> "plank" \o ToString(s.plankCount),
   pos |-> [x |-> IF direction = 0 THEN Px(Width) * direction
                  ELSE Px(Width) * direction - radiusX * 2,
            y |-> Px(10 + row_number * 40)],
   createTime |-> s.time,
   radiusX |-> radiusX, radiusY |-> radiusY,
   direction |-> direction, speed |-> speed]

createCrocodile(s, row_number, direction, speed, radiusX, radiusY) ==
  [id |-> "crocodile",
   pos |-> [x |-> IF direction = 0 THEN Px(Width) * direction
                  ELSE Px(Width) * direction - radiusX * 2,
            y |-> Px(10 + row_number * 40)],
   createTime |-> s.time,
   radiusX |-> radiusX, radiusY |-> radiusY,
   direction |-> direction, speed |-> speed]

\* mutant: the goal slots lie one row lower
createTarget_Lower(n) ==
  [id |-> "target" \o ToString(n + 1),
   pos |-> [x |-> Px(120 * n + 40), y |-> Px(40)],
   createTime |-> 0, radius |-> Px(20)]

createTarget(n) ==
  [id |-> "target" \o ToString(n + 1),
   pos |-> [x |-> Px(120 * n + 40), y |-> Px(0)],
   createTime |-> 0, radius |-> Px(20)]

initialState ==
  [time |-> 0,
   frog |-> createFrog(300, 580, FALSE),
   ladyFrog |-> NULL,
   cars |-> <<>>,
   planks |-> <<>>,
   targets |-> <<>>,
   crocodile |-> NULL,
   river |-> createRiver,
   carCount |-> 0,
   plankCount |-> 0,
   score |-> 0,
   highscore |-> 0,
   level |-> 1,
   multiplier |-> Rat(105, 100),
   carSpeed |-> <<Rat(1, 1), Rat(1, 1), Rat(13, 10), Rat(1, 1), Rat(1, 1), Rat(1, 1)>>,
   carNum |-> <<2, 2, 1, 3, 3, 2>>,
   plankNum |-> <<2, 3, 4, 2, 3, 3>>,
   frogOnPlank |-> <<>>,
   ladyFrogOnPlank |-> <<>>,
   hasFrogTarget |-> <<>>,
   frogPicksUpLadyFrog |-> FALSE,
   frogInTargetCount |-> 0,
   passedLevel |-> FALSE,
   gameOver |-> FALSE]

\* ---------------------------------------------------------------------
\* resetState
\* ---------------------------------------------------------------------

\* mutant: the milestone is tested one level early
NextLevelCarNum_OneLevelEarly(s) ==
  IF s.level = 4 THEN <<2 + 1, 2 + 1, 1 + 1, 3 + 1, 3 + 1, 2 + 1>>
  ELSE <<2, 2, 1, 3, 3, 2>>

NextLevelCarNum(s) ==
  IF s.level = 5 THEN <<2 + 1, 2 + 1, 1 + 1, 3 + 1, 3 + 1, 2 + 1>>
  ELSE <<2, 2, 1, 3, 3, 2>>

NextLevelPlankNum(s) ==
  IF s.level = 5 THEN <<2, 3, 4 - 1, 2 - 1, 3, 3 - 1>>
  ELSE <<2, 3, 4, 2, 3, 3>>

\* mutant: the game-over branch keeps the level reached
resetGameOver_KeepLevel(s) ==
  [initialState EXCEPT !.highscore = s.highscore, !.level = s.level]

\* mutant: the game-over branch returns initialState itself, highscore included
resetGameOver_Initial(s) == initialState

resetGameOver(s) ==
  [s EXCEPT
     !.time = 0,
     !.frog = createFrog(300, 580, FALSE),
     !.ladyFrog = NULL,
     !.cars = <<>>,
     !.planks = <<>>,
     !.targets = <<>>,
     !.crocodile = NULL,
     !.river = createRiver,
     !.carCount = 0,
     !.plankCount = 0,
     !.score = 0,
     !.level = 1,
     !.multiplier = Rat(105, 100),
     !.carSpeed = <<Rat(1, 1), Rat(1, 1), Rat(13, 10), Rat(1, 1), Rat(1, 1), Rat(1, 1)>>,
     !.carNum = <<2, 2, 1, 3, 3, 2>>,
     !.plankNum = <<2, 3, 4, 2, 3, 3>>,
     !.frogOnPlank = <<>>,
     !.ladyFrogOnPlank = <<>>,
     !.hasFrogTarget = <<>>,
     !.frogPicksUpLadyFrog = FALSE,
     !.frogInTargetCount = 0,
     !.passedLevel = FALSE,
     !.gameOver = FALSE]

\* mutant: the next level starts with the score at 0
resetPassedLevel_ZeroScore(s) ==
  [s EXCEPT
     !.frog = createFrog(300, 580, FALSE),
     !.ladyFrog = NULL,
     !.cars = <<>>,
     !.planks = <<>>,
     !.targets = <<>>,
     !.crocodile = NULL,
     !.carCount = 0,
     !.plankCount = 0,
     !.score = 0,
     !.level = s.level + 1,
     !.carSpeed = [i \in Rows |-> RatMul(s.carSpeed[i], s.multiplier)],
     !.carNum = NextLevelCarNum(s),
     !.plankNum = NextLevelPlankNum(s),
     !.frogOnPlank = <<>>,
     !.ladyFrogOnPlank = <<>>,
     !.hasFrogTarget = <<>>,
     !.frogPicksUpLadyFrog = FALSE,
     !.frogInTargetCount = 0,
     !.passedLevel = FALSE]

resetPassedLevel(s) ==
  [s EXCEPT
     !.frog = createFrog(300, 580, FALSE),
     !.ladyFrog = NULL,
     !.cars = <<>>,
     !.planks = <<>>,
     !.targets = <<>>,
     !.crocodile = NULL,
     !.carCount = 0,
     !.plankCount = 0,
     !.level = s.level + 1,
     !.carSpeed = [i \in Rows |-> RatMul(s.carSpeed[i], s.multiplier)],
     !.carNum = NextLevelCarNum(s),
     !.plankNum = NextLevelPlankNum(s),
     !.frogOnPlank = <<>>,
     !.ladyFrogOnPlank = <<>>,
     !.hasFrogTarget = <<>>,
     !.frogPicksUpLadyFrog = FALSE,
     !.frogInTargetCount = 0,
     !.passedLevel = FALSE]

\* mutant: every state that is not a game over is taken to the next level
resetState_NoFallThrough(s) ==
  IF s.gameOver THEN resetGameOver(s) ELSE resetPassedLevel(s)

\* mutant: the passedLevel branch is tested before the gameOver branch
resetState_PassedFirst(s) ==
  IF s.passedLevel THEN resetPassedLevel(s)
  ELSE IF s.gameOver THEN resetGameOver(s)
  ELSE s

resetState(s) ==
  IF s.gameOver THEN resetGameOver(s)
  ELSE IF s.passedLevel THEN resetPassedLevel(s)
  ELSE s

\* ---------------------------------------------------------------------
\* Wraps and movement
\* ---------------------------------------------------------------------

\* mutant: only the right edge wraps
wrap_RightOnly(x, radius) ==
  IF x + radius > Px(Width) THEN x - Px(Width) ELSE x

\* mutant: the comparisons include the threshold itself
wrap_NonStrict(x, radius) ==
  IF x + radius <= 0 THEN x + Px(Width)
  ELSE IF x + radius >= Px(Width) THEN x - Px(Width)
  ELSE x

wrap(x, radius) ==
  IF x + radius < 0 THEN x + Px(Width)
  ELSE IF x + radius > Px(Width) THEN x - Px(Width)
  ELSE x

\* mutant: the lady frog wraps by the width of the canvas, as the cars do
wrapLadyFrog_ByWidth(x, radius) ==
  IF x - radius > Px(Width) THEN x - Px(Width) ELSE x

wrapLadyFrog(x, radius) ==
  IF x - radius > Px(Width) THEN x - Px(620) ELSE x

\* mutant: a plank wraps from the right edge as from the left, by 600 + radius
\* measured from its far end
wrapPlank_RightAsLeft(xPlank, radiusPlank) ==
  IF xPlank + radiusPlank * 2 < 0 THEN xPlank + Px(Width) + radiusPlank
  ELSE IF xPlank > Px(Width) THEN xPlank - Px(Width) - radiusPlank * 3
  ELSE xPlank

\* mutant: a plank whose left end is exactly on the right edge wraps already
wrapPlank_AtEdge(xPlank, radiusPlank) ==
  IF xPlank + radiusPlank * 2 < 0 THEN xPlank + Px(Width) + radiusPlank
  ELSE IF xPlank >= Px(Width) THEN xPlank - Px(Width) - radiusPlank
  ELSE xPlank

wrapPlank(xPlank, radiusPlank) ==
  IF xPlank + radiusPlank * 2 < 0 THEN xPlank + Px(Width) + radiusPlank
  ELSE IF xPlank > Px(Width) THEN xPlank - Px(Width) - radiusPlank
  ELSE xPlank

moveCar(o, direction, speed) ==
  [o EXCEPT !.pos.x = IF direction = 1 THEN wrap(o.pos.x - speed, o.radius)
                      ELSE wrap(o.pos.x + speed, o.radius)]

movePlankOrCrocodile(o, direction, speed) ==
  [o EXCEPT !.pos.x = IF direction = 1 THEN wrapPlank(o.pos.x - speed, o.radiusX)
                      ELSE wrapPlank(o.pos.x + speed, o.radiusX)]

moveFrog(o, direction, speed) ==
  [o EXCEPT !.pos.x = IF direction = 1 THEN o.pos.x - speed ELSE o.pos.x + speed]

moveLadyFrog(o, speed) ==
  [o EXCEPT !.pos.x = wrapLadyFrog(o.pos.x + speed, o.radius)]

\* ---------------------------------------------------------------------
\* handleCollisions and tick
\* ---------------------------------------------------------------------

frogCollided(frog, obj) ==
  /\ Abs(frog.pos.x - (obj.pos.x + obj.radius)) < frog.radius + obj.radius
  /\ Abs(frog.pos.y - (obj.pos.y + obj.radius)) < frog.radius + obj.radius

frogCollidedPlankOrRiver(frog, obj) ==
  /\ Abs(frog.pos.x - (obj.pos.x + obj.radiusX)) < frog.radius + obj.radiusX
  /\ Abs(frog.pos.y - (obj.pos.y + obj.radiusY)) < frog.radius + obj.radiusY

frogCollideCar(s) ==
  \E i \in 1..Len(s.cars) : frogCollided(s.frog, s.cars[i])

frogCollidePlank(s) ==
  LET Hit(r) == frogCollidedPlankOrRiver(s.frog, r) IN SelectSeq(s.planks, Hit)

ladyFrogOnPlankNow(s) ==
  IF s.ladyFrog # NULL
  THEN LET Hit(r) == frogCollidedPlankOrRiver(s.ladyFrog, r) IN SelectSeq(s.planks, Hit)
  ELSE <<>>

frogPicksUpLadyFrogNow(s) ==
  IF s.ladyFrog # NULL THEN frogCollided(s.frog, s.ladyFrog) ELSE FALSE

\* mutant: the river test ignores the planks under the frog
frogCollideRiver_NoPlankOverride(s) == frogCollidedPlankOrRiver(s.frog, s.river)

frogCollideRiver(s) ==
  IF Len(frogCollidePlank(s)) > 0 THEN FALSE
  ELSE frogCollidedPlankOrRiver(s.frog, s.river)

\* mutant: the player is also out of bounds above and below the canvas
frogOutOfBounds_Canvas(s) ==
  \/ s.frog.pos.x - s.frog.radius > Px(Width)
  \/ s.frog.pos.x + s.frog.radius < 0
  \/ s.frog.pos.y < 0
  \/ s.frog.pos.y > Px(600)

frogOutOfBounds(s) ==
  \/ s.frog.pos.x - s.frog.radius > Px(Width)
  \/ s.frog.pos.x + s.frog.radius < 0

hasFrogTargetNow(s) ==
  LET Hit(r) == frogCollided(s.frog, r) IN SelectSeq(s.targets, Hit)

\* mutant: a held bonus replaces the goal reward instead of adding to it
collisionScore_BonusOnly(s, atTarget) ==
  IF atTarget /\ s.frogPicksUpLadyFrog THEN s.score + 200
  ELSE IF atTarget /\ ~s.frogPicksUpLadyFrog THEN s.score + 50
  ELSE s.score

collisionScore(s, atTarget) ==
  IF atTarget /\ s.frogPicksUpLadyFrog THEN s.score + 200 + 50
  ELSE IF atTarget /\ ~s.frogPicksUpLadyFrog THEN s.score + 50
  ELSE s.score

collisionHighscore(s, atTarget) ==
  IF /\ atTarget
     /\ s.frogPicksUpLadyFrog
     /\ (s.score >= s.highscore \/ s.score + 200 + 50 >= s.highscore)
  THEN s.score + 200 + 50
  ELSE IF /\ atTarget
          /\ ~s.frogPicksUpLadyFrog
          /\ (s.score >= s.highscore \/ s.score + 50 >= s.highscore)
  THEN s.score + 50
  ELSE s.highscore

\* mutant: the out-of-bounds test is left out
collisionGameOver_NoBounds(s) == frogCollideCar(s) \/ frogCollideRiver(s)

\* mutant: the car test is left out
collisionGameOver_NoCar(s) == frogCollideRiver(s) \/ frogOutOfBounds(s)

\* mutant: the crocodile kills the player that overlaps it
collisionGameOver_Crocodile(s) ==
  \/ frogCollideCar(s) \/ frogCollideRiver(s) \/ frogOutOfBounds(s)
  \/ s.crocodile # NULL /\ frogCollidedPlankOrRiver(s.frog, s.crocodile)

collisionGameOver(s) ==
  frogCollideCar(s) \/ frogCollideRiver(s) \/ frogOutOfBounds(s)

\* mutant: the counter is compared before it is incremented
collisionPassedLevel_BeforeIncrement(s, atTarget) ==
  IF atTarget /\ s.frogInTargetCount = 5 THEN TRUE ELSE FALSE

collisionPassedLevel(s, atTarget) ==
  IF atTarget /\ s.frogInTargetCount + 1 = 5 THEN TRUE ELSE FALSE

handleCollisions(s) ==
  LET targetsHit == hasFrogTargetNow(s)
      atTarget == Len(targetsHit) > 0
  IN [s EXCEPT
        !.frog = IF atTarget THEN createFrog(300, 580, FALSE) ELSE s.frog,
        !.score = collisionScore(s, atTarget),
        !.highscore = collisionHighscore(s, atTarget),
        !.hasFrogTarget = targetsHit,
        !.frogOnPlank = frogCollidePlank(s),
        !.ladyFrogOnPlank = ladyFrogOnPlankNow(s),
        !.frogPicksUpLadyFrog =
            IF s.frogPicksUpLadyFrog
            THEN (IF atTarget THEN FALSE ELSE s.frogPicksUpLadyFrog)
            ELSE frogPicksUpLadyFrogNow(s),
        !.frogInTargetCount =
            IF atTarget THEN s.frogInTargetCount + 1 ELSE s.frogInTargetCount,
        !.passedLevel = collisionPassedLevel(s, atTarget),
        !.gameOver = collisionGameOver(s)]

\* the argument tick hands to handleCollisions: every entity moved one step
\* mutant: the player is carried by the plank it overlaps now
moved_CarriedNow(s, elapsed) ==
  [s EXCEPT
        !.time = elapsed,
        !.cars = [i \in 1..Len(s.cars) |->
                    moveCar(s.cars[i], s.cars[i].direction, s.cars[i].speed)],
        !.planks = [i \in 1..Len(s.planks) |->
                      movePlankOrCrocodile(s.planks[i], s.planks[i].direction,
                                           s.planks[i].speed)],
        !.frog = IF Len(frogCollidePlank(s)) > 0
                 THEN moveFrog(s.frog, frogCollidePlank(s)[1].direction,
                               frogCollidePlank(s)[1].speed)
                 ELSE s.frog,
        !.ladyFrog = IF s.ladyFrog # NULL
                     THEN (IF Len(s.ladyFrogOnPlank) > 0
                           THEN moveLadyFrog(s.ladyFrog, s.ladyFrogOnPlank[1].speed)
                           ELSE s.ladyFrog)
                     ELSE s.ladyFrog,
        !.crocodile = IF s.crocodile # NULL
                      THEN movePlankOrCrocodile(s.crocodile, s.crocodile.direction,
                                                s.crocodile.speed)
                      ELSE s.crocodile]

moved(s, elapsed) ==
  [s EXCEPT
        !.time = elapsed,
        !.cars = [i \in 1..Len(s.cars) |->
                    moveCar(s.cars[i], s.cars[i].direction, s.cars[i].speed)],
        !.planks = [i \in 1..Len(s.planks) |->
                      movePlankOrCrocodile(s.planks[i], s.planks[i].direction,
                                           s.planks[i].speed)],
        !.frog = IF Len(s.frogOnPlank) > 0
                 THEN moveFrog(s.frog, s.frogOnPlank[1].direction, s.frogOnPlank[1].speed)
                 ELSE s.frog,
        !.ladyFrog = IF s.ladyFrog # NULL
                     THEN (IF Len(s.ladyFrogOnPlank) > 0
                           THEN moveLadyFrog(s.ladyFrog, s.ladyFrogOnPlank[1].speed)
                           ELSE s.ladyFrog)
                     ELSE s.ladyFrog,
        !.crocodile = IF s.crocodile # NULL
                      THEN movePlankOrCrocodile(s.crocodile, s.crocodile.direction,
                                                s.crocodile.speed)
                      ELSE s.crocodile]

tick(s, elapsed) == handleCollisions(moved(s, elapsed))

\* ---------------------------------------------------------------------
\* Actions of the merged stream and reduceState
\* ---------------------------------------------------------------------

MoveAct(x, y, addScore) == [type |-> "Move", x |-> x, y |-> y, addScore |-> addScore]
TickAct(elapsed) == [type |-> "Tick", elapsed |-> elapsed]
CreateCarAct(row_no, direction) ==
  [type |-> "CreateCar", row_no |-> row_no, direction |-> direction]
CreatePlankAct(row_no, direction, speed, radiusX, radiusY) ==
  [type |-> "CreatePlank", row_no |-> row_no, direction |-> direction,
   speed |-> speed, radiusX |-> radiusX, radiusY |-> radiusY]
CreateTargetAct(n) == [type |-> "CreateTarget", n |-> n]
CreateCrocodileAct(row_no, direction, speed, radiusX, radiusY) ==
  [type |-> "CreateCrocodile", row_no |-> row_no, direction |-> direction,
   speed |-> speed, radiusX |-> radiusX, radiusY |-> radiusY]
CreateLadyFrogAct == [type |-> "CreateLadyFrog"]

\* mutant: the highscore follows the score only once the score exceeds it
moveHighscore_Strict(s, e) ==
  IF e.addScore /\ s.score > s.highscore THEN s.highscore + 10 ELSE s.highscore

moveHighscore(s, e) ==
  IF e.addScore /\ s.score >= s.highscore THEN s.highscore + 10 ELSE s.highscore

\* mutant: the player's x is wrapped like a car's
reduceMove_Wrapped(s, e) ==
  [s EXCEPT
     !.frog.pos = [x |-> wrap(s.frog.pos.x + e.x, s.frog.radius),
                   y |-> s.frog.pos.y + e.y],
     !.score = IF e.addScore THEN s.score + 10 ELSE s.score,
     !.highscore = moveHighscore(s, e)]

reduceMove(s, e) ==
  [s EXCEPT
     !.frog.pos = [x |-> s.frog.pos.x + e.x, y |-> s.frog.pos.y + e.y],
     !.score = IF e.addScore THEN s.score + 10 ELSE s.score,
     !.highscore = moveHighscore(s, e)]

\* mutant: a Move is followed by collision detection
reduceState_MoveCollides(s, e) ==
  IF e.type = "Move" THEN handleCollisions(reduceMove(s, e))
  ELSE IF e.type = "CreateCar"
  THEN [s EXCEPT !.cars = Append(s.cars, createCar(s, e.row_no, e.direction)),
                 !.carCount = s.carCount + 1]
  ELSE IF e.type = "CreatePlank"
  THEN [s EXCEPT !.planks = Append(s.planks,
                      createPlank(s, e.row_no, e.direction, e.speed, e.radiusX, Px(10))),
                 !.plankCount = s.plankCount + 1]
  ELSE IF e.type = "CreateTarget"
  THEN [s EXCEPT !.targets = Append(s.targets, createTarget(e.n))]
  ELSE IF e.type = "CreateCrocodile"
  THEN [s EXCEPT !.crocodile =
          createCrocodile(s, e.row_no, e.direction, e.speed, e.radiusX, Px(10))]
  ELSE IF e.type = "CreateLadyFrog"
  THEN [s EXCEPT !.ladyFrog = createFrog(40, 220, TRUE)]
  ELSE tick(s, e.elapsed)

reduceState(s, e) ==
  IF e.type = "Move" THEN reduceMove(s, e)
  ELSE IF e.type = "CreateCar"
  THEN [s EXCEPT !.cars = Append(s.cars, createCar(s, e.row_no, e.direction)),
                 !.carCount = s.carCount + 1]
  ELSE IF e.type = "CreatePlank"
  THEN [s EXCEPT !.planks = Append(s.planks,
                      createPlank(s, e.row_no, e.direction, e.speed, e.radiusX, Px(10))),
                 !.plankCount = s.plankCount + 1]
  ELSE IF e.type = "CreateTarget"
  THEN [s EXCEPT !.targets = Append(s.targets, createTarget(e.n))]
  ELSE IF e.type = "CreateCrocodile"
  THEN [s EXCEPT !.crocodile =
          createCrocodile(s, e.row_no, e.direction, e.speed, e.radiusX, Px(10))]
  ELSE IF e.type = "CreateLadyFrog"
  THEN [s EXCEPT !.ladyFrog = createFrog(40, 220, TRUE)]
  ELSE tick(s, e.elapsed)

\* ---------------------------------------------------------------------
\* controlFrog: keydown -> Move
\* ---------------------------------------------------------------------

UpKeys == {"w", "ArrowUp"}
LeftKeys == {"a", "ArrowLeft"}
DownKeys == {"s", "ArrowDown"}
RightKeys == {"d", "ArrowRight"}
\* "r" and "x" stand for the keys controlFrog does not name
Keys == UpKeys \cup LeftKeys \cup DownKeys \cup RightKeys \cup {"r", "x"}

\* mutant: a key without a direction still scores
controlFrog_OtherScores(key) ==
  IF key \in UpKeys THEN MoveAct(Px(0), -Px(40), TRUE)
  ELSE IF key \in LeftKeys THEN MoveAct(-Px(40), Px(0), FALSE)
  ELSE IF key \in DownKeys THEN MoveAct(Px(0), Px(40), FALSE)
  ELSE IF key \in RightKeys THEN MoveAct(Px(40), Px(0), FALSE)
  ELSE MoveAct(Px(0), Px(0), TRUE)

controlFrog(key) ==
  IF key \in UpKeys THEN MoveAct(Px(0), -Px(40), TRUE)
  ELSE IF key \in LeftKeys THEN MoveAct(-Px(40), Px(0), FALSE)
  ELSE IF key \in DownKeys THEN MoveAct(Px(0), Px(40), FALSE)
  ELSE IF key \in RightKeys THEN MoveAct(Px(40), Px(0), FALSE)
  ELSE MoveAct(Px(0), Px(0), FALSE)

\* ---------------------------------------------------------------------
\* startGame: the spawn streams of one round
\* ---------------------------------------------------------------------

CarStreams == {"row1Car", "row2Car", "row3Car", "row4Car", "row5Car", "row6Car"}
PlankStreams ==
  {"row1Plank", "row2Plank", "row3Plank", "row4Plank", "row5Plank", "row6Plank"}
Streams == CarStreams \cup PlankStreams \cup {"addCroc", "addLadyFrog"}

\* the action a stream emits (speeds 1, 0.85, 1.5, 0.6 pixels per tick)
StreamAction(st) ==
  CASE st = "row1Car" -> CreateCarAct(1, 0)
    [] st = "row2Car" -> CreateCarAct(2, 1)
    [] st = "row3Car" -> CreateCarAct(3, 0)
    [] st = "row4Car" -> CreateCarAct(4, 1)
    [] st = "row5Car" -> CreateCarAct(5, 0)
    [] st = "row6Car" -> CreateCarAct(6, 1)
    [] st = "row1Plank" -> CreatePlankAct(1, 1, U, Px(70), Px(10))
    [] st = "row2Plank" -> CreatePlankAct(2, 0, U, Px(70), Px(10))
    [] st = "row3Plank" -> CreatePlankAct(3, 1, (85 * U) \div 100, Px(40), Px(10))
    [] st = "row4Plank" -> CreatePlankAct(4, 0, (15 * U) \div 10, Px(130), Px(10))
    [] st = "row5Plank" -> CreatePlankAct(5, 0, (6 * U) \div 10, Px(50), Px(10))
    [] st = "row6Plank" -> CreatePlankAct(6, 1, U, Px(50), Px(10))
    [] st = "addCroc" -> CreateCrocodileAct(1, 1, U, Px(70), Px(10))
    [] st = "addLadyFrog" -> CreateLadyFrogAct

\* take(n) of the stream, n read from the state startGame was called with
\* mutant: every stream takes one emission more
StreamTake_OneMore(s, st) ==
  IF st \in CarStreams THEN s.carNum[StreamAction(st).row_no] + 1
  ELSE IF st \in PlankStreams THEN s.plankNum[StreamAction(st).row_no] + 1
  ELSE 2

StreamTake(s, st) ==
  CASE st = "row1Car" -> s.carNum[1]
    [] st = "row2Car" -> s.carNum[2]
    [] st = "row3Car" -> s.carNum[3]
    [] st = "row4Car" -> s.carNum[4]
    [] st = "row5Car" -> s.carNum[5]
    [] st = "row6Car" -> s.carNum[6]
    [] st = "row1Plank" -> s.plankNum[1]
    [] st = "row2Plank" -> s.plankNum[2]
    [] st = "row3Plank" -> s.plankNum[3]
    [] st = "row4Plank" -> s.plankNum[4]
    [] st = "row5Plank" -> s.plankNum[5]
    [] st = "row6Plank" -> s.plankNum[6]
    [] st = "addCroc" -> 1
    [] st = "addLadyFrog" -> 1

\* addTarget(0): target1..target5, each range(1, 1) emitting on subscription
\* mutant: the recursion starts at slot 1, so slot 0 is never created
addTarget_FromOne(n) == [i \in 1..4 |-> CreateTargetAct(i)]

RECURSIVE addTarget(_)
addTarget(n) == IF n = 5 THEN <<>> ELSE <<CreateTargetAct(n)>> \o addTarget(n + 1)

\* scan(reduceState, s) over a sequence of actions
RECURSIVE scan(_, _)
scan(s, acts) ==
  IF acts = <<>> THEN s ELSE scan(reduceState(s, Head(acts)), Tail(acts))

\* ---------------------------------------------------------------------
\* The driver: startGame, the subscriber, updateView
\* ---------------------------------------------------------------------

VARIABLES
  state,     \* the latest State (the seed before a round's first action)
  phase,     \* "seed": startGame about to subscribe; "running"; "over": waiting
             \* for 'r'; "passed": updateView about to start the next level
  clock,     \* the next value of this round's gameClock
  taken,     \* taken[st]: how many actions stream st has emitted this round
  filled,    \* history: ids of the targets reached since the level began
  downs,     \* history: Down key presses of this round
  restarts,  \* history: rounds restarted with 'r'
  pickups,   \* history: Ticks of this level that set frogPicksUpLadyFrog
  held,      \* the key the player holds down, "none" between key presses
  repeats,   \* history: Moves reduced from keydown events with repeat = true
  ups,       \* history: scoring Moves since the round began or a goal was reached
  subscriptions, \* how many subscriptions of startGame are live
  keyDowns,  \* how many keydown subscriptions of updateView wait for 'r'
  probe      \* the argument a movement function is applied to on its own

vars == <<state, phase, clock, taken, filled, downs, restarts, pickups, held, repeats,
          ups, subscriptions, keyDowns, probe>>

\* no movement function is being applied on its own
NoProbe == [kind |-> "none"]

Init ==
  /\ state = initialState
  /\ phase = "seed"
  /\ clock = 0
  /\ taken = [st \in Streams |-> 0]
  /\ filled = {}
  /\ downs = 0
  /\ restarts = 0
  /\ pickups = 0
  /\ held = "none"
  /\ repeats = 0
  /\ ups = 0
  /\ subscriptions = 0
  /\ keyDowns = 0
  /\ probe = NoProbe

\* the subscriber of startGame: unsubscribes on a terminal state; updateView
\* then waits for 'r' (gameOver first) or starts the next level
\* mutant: the subscriber unsubscribes on gameOver only
\* mutant: the subscriber never unsubscribes
Unsubscribe_Never(s, n) == n

\* the subscriber's last statement on a gameOver state: of n live
\* subscriptions this round's is unsubscribed (on a passedLevel state the
\* statement is reached only when startGame has returned, see Resubscribe)
Unsubscribe(s, n) == IF s.gameOver THEN n - 1 ELSE n

\* updateView on a gameOver state subscribes to keydown and waits for 'r'
ListenRestart(s, n) == IF s.gameOver THEN n + 1 ELSE n

\* startGame subscribes to the merged stream; when updateView called it from
\* the callback of the round before, that round's subscription is
\* unsubscribed as the callback goes on
Resubscribe(n) == IF n > 0 THEN (n + 1) - 1 ELSE n + 1

\* mutant: the handler of 'r' keeps its subscription
keyDownUnsubscribe_Kept(n) == n

\* keyDown.unsubscribe() in the handler of 'r'
keyDownUnsubscribe(n) == n - 1

PhaseAfter_GameOverOnly(s) ==
  IF s.gameOver THEN "over" ELSE "running"

PhaseAfter(s) ==
  IF s.gameOver THEN "over" ELSE IF s.passedLevel THEN "passed" ELSE "running"

\* startGame(s): subscribing to the merge emits the five CreateTarget at once
StartGame ==
  /\ phase = "seed"
  /\ state' = scan(state, addTarget(0))
  /\ phase' = PhaseAfter(state')
  /\ subscriptions' = Resubscribe(subscriptions)
  /\ clock' = 0
  /\ taken' = [st \in Streams |-> 0]
  /\ UNCHANGED <<ups, keyDowns, held, repeats, probe, filled, downs, restarts, pickups>>

\* gameClock emits Tick(clock)
Tick ==
  /\ phase = "running"
  /\ state' = reduceState(state, TickAct(clock))
  /\ phase' = PhaseAfter(state')
  /\ subscriptions' = Unsubscribe(state', subscriptions)
  /\ keyDowns' = ListenRestart(state', keyDowns)
  /\ ups' = IF Len(state'.hasFrogTarget) > 0 THEN 0 ELSE ups
  /\ clock' = clock + 1
  /\ filled' = filled \cup {state'.hasFrogTarget[i].id : i \in 1..Len(state'.hasFrogTarget)}
  /\ pickups' = IF ~state.frogPicksUpLadyFrog /\ state'.frogPicksUpLadyFrog
                THEN pickups + 1 ELSE pickups
  /\ UNCHANGED <<held, repeats, probe, taken, downs, restarts>>

\* a keydown while the round's subscription is live
KeyDown(key) ==
  /\ phase = "running"
  /\ state' = reduceState(state, controlFrog(key))
  /\ phase' = PhaseAfter(state')
  /\ subscriptions' = Unsubscribe(state', subscriptions)
  /\ keyDowns' = ListenRestart(state', keyDowns)
  /\ ups' = IF controlFrog(key).addScore THEN ups + 1 ELSE ups
  /\ downs' = IF key \in DownKeys THEN downs + 1 ELSE downs
  /\ UNCHANGED <<held, repeats, probe, clock, taken, filled, restarts, pickups>>

\* a spawn stream emits its next action
Emit(st) ==
  /\ phase = "running"
  /\ taken[st] < StreamTake(state, st)
  /\ st \in CarStreams => RatExact(CarSpeedRat(state, StreamAction(st).row_no))
  /\ state' = reduceState(state, StreamAction(st))
  /\ phase' = PhaseAfter(state')
  /\ subscriptions' = Unsubscribe(state', subscriptions)
  /\ keyDowns' = ListenRestart(state', keyDowns)
  /\ taken' = [taken EXCEPT ![st] = @ + 1]
  /\ UNCHANGED <<ups, held, repeats, probe, clock, filled, downs, restarts, pickups>>

\* updateView on a gameOver state: the 'r' keydown calls startGame(resetState(state))
Restart ==
  /\ phase = "over"
  /\ state' = resetState(state)
  /\ phase' = "seed"
  /\ filled' = {}
  /\ downs' = 0
  /\ pickups' = 0
  /\ ups' = 0
  /\ keyDowns' = keyDownUnsubscribe(keyDowns)
  /\ restarts' = restarts + 1
  /\ UNCHANGED <<subscriptions, held, repeats, probe, clock, taken>>

\* updateView on a passedLevel state: startGame(resetState(state))
NextLevel ==
  /\ phase = "passed"
  /\ state' = resetState(state)
  /\ phase' = "seed"
  /\ filled' = {}
  /\ downs' = 0
  /\ pickups' = 0
  /\ ups' = 0
  /\ UNCHANGED <<subscriptions, keyDowns, held, repeats, probe, clock, taken, restarts>>

\* ---------------------------------------------------------------------
\* Bounds and specifications
\* ---------------------------------------------------------------------

\* SpecField: ticks and spawn actions of the round
MaxTicks == 1
MaxSpawns == 1

\* SpecRounds: ticks of a round, restarts of the session, highest level
MaxRoundTicks == 5
MaxRestarts == 1
MaxLevel == 2

\* SpecLane: ticks of the round, planks spawned in it and Down presses
MaxLaneTicks == 3
MaxLanePlanks == 1
MaxDown == 1

\* the columns (x in pixels) in which the player of SpecField leaves the start row
Lanes == {20, 60, 300, 580}

StartRow == Px(580)

Spawned == taken["addCroc"] + taken["addLadyFrog"] + Len(state.cars) + Len(state.planks)

\* The player of SpecField walks sideways on the start row, as far as one step
\* beyond either edge, and climbs in a lane, as far as one row above the goal
\* row.
Walks(key) ==
  LET e == controlFrog(key)
      x == state.frog.pos.x + e.x
      y == state.frog.pos.y + e.y
  IN /\ e.x # 0 => state.frog.pos.y = StartRow /\ -Px(20) <= x /\ x <= Px(Width + 20)
     /\ e.y # 0 => /\ -Px(20) <= y
                   /\ state.frog.pos.y = StartRow =>
                        \E c \in Lanes : state.frog.pos.x = Px(c)

\* the first round of the session with every key and every spawn stream
NextField ==
  \/ StartGame
  \/ clock < MaxTicks /\ Tick
  \/ \E key \in Keys \ DownKeys : clock < MaxTicks /\ Walks(key) /\ KeyDown(key)
  \/ \E st \in Streams : clock < MaxTicks /\ Spawned < MaxSpawns /\ Emit(st)

SpecField == Init /\ [][NextField]_vars

\* whole sessions (restarts, level transitions) of a player who only climbs
NextRounds ==
  \/ StartGame
  \/ clock < MaxRoundTicks /\ Tick
  \/ \E key \in UpKeys : state.frog.pos.y > Px(20) /\ KeyDown(key)
  \/ restarts < MaxRestarts /\ Restart
  \/ state.level < MaxLevel /\ NextLevel

SpecRounds == Init /\ [][NextRounds]_vars

\* The first round of a player who walks left along the start row to the lane
\* of the lady frog (x = 60) and climbs it, stepping back down now and then as
\* far as one row below the start row, with the lady frog and the planks of
\* row 5, which spawn under the lady frog and under that lane.
NextLane ==
  \/ StartGame
  \/ clock < MaxLaneTicks /\ Tick
  \/ \E key \in LeftKeys :
       /\ clock < MaxLaneTicks
       /\ state.frog.pos.y = StartRow /\ state.frog.pos.x > Px(60)
       /\ KeyDown(key)
  \/ \E key \in UpKeys :
       /\ clock < MaxLaneTicks
       /\ state.frog.pos.x < Px(100) /\ state.frog.pos.y > Px(20)
       /\ KeyDown(key)
  \/ \E key \in DownKeys :
       /\ clock < MaxLaneTicks
       /\ downs < MaxDown
       /\ state.frog.pos.x < Px(100) /\ state.frog.pos.y <= StartRow
       /\ KeyDown(key)
  \/ clock < MaxLaneTicks /\ Emit("addLadyFrog")
  \/ clock < MaxLaneTicks /\ Len(state.planks) < MaxLanePlanks /\ Emit("row5Plank")

SpecLane == Init /\ [][NextLane]_vars

\* SpecTour: ticks and spawn actions of a round
MaxTourTicks == 5
MaxTourSpawns == 1

\* the largest integer of the model's arithmetic
MaxInt == (2^30 - 1) + 2^30

\* the carSpeed products of the next level are integers of the model
RatFits(s) ==
  \A i \in Rows : /\ s.carSpeed[i].n <= MaxInt \div s.multiplier.n
                  /\ s.carSpeed[i].d <= MaxInt \div s.multiplier.d

\* the streams that spawn in SpecTour: one of each kind of entity
TourStreams == {"row3Car", "row4Plank", "addCroc", "addLadyFrog"}

\* A player who climbs the middle column level after level, as far as the
\* speeds of the next level can be computed, while the streams spawn.
NextTour ==
  \/ StartGame
  \/ clock < MaxTourTicks /\ Tick
  \/ \E key \in UpKeys : state.frog.pos.y > Px(20) /\ KeyDown(key)
  \/ \E st \in TourStreams :
       /\ Spawned < MaxTourSpawns
       /\ st \in CarStreams => RatFits(state)
       /\ Emit(st)
  \/ RatFits(state) /\ NextLevel

SpecTour == Init /\ [][NextTour]_vars

\* SpecSpawn: streams that emit in a round, ticks of a round, restarts
MaxStreams == 2
MaxSpawnTicks == 1
MaxSpawnRestarts == 1

\* the streams of SpecSpawn: car and plank streams that take one or two, in
\* either direction, the crocodile and the lady frog
SpawnStreams ==
  {"row3Car", "row2Car", "row1Plank", "row4Plank", "addCroc", "addLadyFrog"}

\* the streams that have emitted in this round
Emitting == {st \in Streams : taken[st] > 0}

\* the streams that emit have emitted all they take
Exhausted ==
  /\ Emitting # {}
  /\ \A st \in Emitting : taken[st] = StreamTake(state, st)

\* Rounds in which a few streams emit all they can take while the player
\* waits; the player then walks off the right edge of the start row and
\* restarts after the game over.
NextSpawn ==
  \/ StartGame
  \/ clock < MaxSpawnTicks /\ Tick
  \/ \E st \in SpawnStreams :
       /\ state.frog.pos.x = Px(300)
       /\ st \in Emitting \/ Cardinality(Emitting) < MaxStreams
       /\ Emit(st)
  \/ \E key \in RightKeys :
       /\ Exhausted
       /\ state.frog.pos.x < Px(Width + 20)
       /\ KeyDown(key)
  \/ restarts < MaxSpawnRestarts /\ Restart

SpecSpawn == Init /\ [][NextSpawn]_vars

\* SpecRide: ticks of the round
MaxRideTicks == 955

\* A round in which the lady frog and the planks of row 5 appear before the
\* first tick, or not at all, and the clock then runs until the lady frog has
\* crossed the field; the player waits on the start row.
NextRide ==
  \/ StartGame
  \/ clock < MaxRideTicks /\ Tick
  \/ \E st \in {"addLadyFrog", "row5Plank"} : clock = 0 /\ Emit(st)

SpecRide == Init /\ [][NextRide]_vars

\* SpecCroc: ticks of the round
MaxCrocTicks == 2

\* The first round of a player who walks right along the start row to the
\* column of x = 580 and climbs it to the first row of the river, where the
\* crocodile and the planks of row 1 come in.
NextCroc ==
  \/ StartGame
  \/ clock < MaxCrocTicks /\ Tick
  \/ \E key \in RightKeys :
       /\ state.frog.pos.y = StartRow /\ state.frog.pos.x < Px(580)
       /\ KeyDown(key)
  \/ \E key \in UpKeys :
       /\ state.frog.pos.x > Px(560) /\ state.frog.pos.y > Px(60)
       /\ KeyDown(key)
  \/ \E st \in {"addCroc", "row1Plank"} : clock < MaxCrocTicks /\ Emit(st)

SpecCroc == Init /\ [][NextCroc]_vars

\* SpecDrift: ticks of the round
MaxDriftTicks == 605

\* the streams of SpecDrift: a car stream and a plank-shaped stream of either
\* direction
DriftStreams == {"row1Car", "row2Car", "row4Plank", "addCroc"}

\* A round in which cars, planks and the crocodile come in before the first
\* tick and the clock then runs until each of them has wrapped; the player
\* waits on the start row.
NextDrift ==
  \/ StartGame
  \/ clock < MaxDriftTicks /\ Tick
  \/ \E st \in DriftStreams : clock = 0 /\ Emit(st)

SpecDrift == Init /\ [][NextDrift]_vars

\* ---------------------------------------------------------------------
\* Held keys
\* ---------------------------------------------------------------------

\* the keydown event of a key going down (repeat = false): controlFrog maps
\* it to a Move, which is reduced
KeyPress(key) ==
  /\ phase = "running"
  /\ held = "none"
  /\ held' = key
  /\ state' = reduceState(state, controlFrog(key))
  /\ phase' = PhaseAfter(state')
  /\ subscriptions' = Unsubscribe(state', subscriptions)
  /\ keyDowns' = ListenRestart(state', keyDowns)
  /\ ups' = IF controlFrog(key).addScore THEN ups + 1 ELSE ups
  /\ downs' = IF key \in DownKeys THEN downs + 1 ELSE downs
  /\ UNCHANGED <<repeats, probe, clock, taken, filled, restarts, pickups>>

\* a keydown event the browser sends while the key stays down (repeat =
\* true): controlFrog reads only the event's key, so the event is mapped and
\* reduced like the first
KeyRepeat ==
  /\ phase = "running"
  /\ held # "none"
  /\ state' = reduceState(state, controlFrog(held))
  /\ phase' = PhaseAfter(state')
  /\ subscriptions' = Unsubscribe(state', subscriptions)
  /\ keyDowns' = ListenRestart(state', keyDowns)
  /\ ups' = IF controlFrog(held).addScore THEN ups + 1 ELSE ups
  /\ downs' = IF held \in DownKeys THEN downs + 1 ELSE downs
  /\ repeats' = repeats + 1
  /\ UNCHANGED <<held, probe, clock, taken, filled, restarts, pickups>>

\* the key goes up; nothing listens to keyup
KeyUp ==
  /\ held # "none"
  /\ held' = "none"
  /\ UNCHANGED <<state, phase, clock, taken, filled, downs, restarts, pickups,
                 repeats, ups, subscriptions, keyDowns, probe>>

\* SpecKeys: keydown events with repeat = true
MaxRepeats == 2
\* SpecKeys: ticks of the round
MaxKeyTicks == 1

\* A round without entities in which the player presses, holds and releases
\* keys, walking as in SpecField.
NextKeys ==
  \/ StartGame
  \/ clock < MaxKeyTicks /\ Tick
  \/ \E key \in Keys \ DownKeys : Walks(key) /\ KeyPress(key)
  \/ repeats < MaxRepeats /\ Walks(held) /\ KeyRepeat
  \/ KeyUp

SpecKeys == Init /\ [][NextKeys]_vars

\* ---------------------------------------------------------------------
\* The earlier draft (part_001)
\* ---------------------------------------------------------------------

\* The draft differs from the final program in the highscore of
\* handleCollisions, in the keys (w, a, s, d only) and in how startGame
\* subscribes; its factories, movement, collisions and resetState are the
\* same text.

\* the highscore handleCollisions of the draft returns: the reward is added
\* only when the score has caught up with the highscore
draftCollisionHighscore(s, atTarget) ==
  IF atTarget /\ s.frogPicksUpLadyFrog /\ s.score >= s.highscore
  THEN s.highscore + 200 + 50
  ELSE IF atTarget /\ ~s.frogPicksUpLadyFrog /\ s.score >= s.highscore
  THEN s.highscore + 50
  ELSE s.highscore

draftHandleCollisions(s) ==
  [handleCollisions(s) EXCEPT
     !.highscore = draftCollisionHighscore(s, Len(hasFrogTargetNow(s)) > 0)]

draftTick(s, elapsed) == draftHandleCollisions(moved(s, elapsed))

\* gameClock emits Tick(clock) in the draft
DraftTick ==
  /\ phase = "running"
  /\ state' = draftTick(state, clock)
  /\ phase' = PhaseAfter(state')
  /\ subscriptions' = Unsubscribe(state', subscriptions)
  /\ keyDowns' = ListenRestart(state', keyDowns)
  /\ ups' = IF Len(state'.hasFrogTarget) > 0 THEN 0 ELSE ups
  /\ clock' = clock + 1
  /\ filled' = filled \cup {state'.hasFrogTarget[i].id : i \in 1..Len(state'.hasFrogTarget)}
  /\ pickups' = IF ~state.frogPicksUpLadyFrog /\ state'.frogPicksUpLadyFrog
                THEN pickups + 1 ELSE pickups
  /\ UNCHANGED <<held, repeats, probe, taken, downs, restarts>>

\* SpecDraft: ticks of a round, Down key presses of a round, restarts
MaxDraftTicks == 2
MaxDraftDowns == 3
MaxDraftRestarts == 1

\* Rounds of the draft in which the player walks up the middle column, past
\* the goal row and back down into the river, and the session is restarted.
NextDraft ==
  \/ StartGame
  \/ clock < MaxDraftTicks /\ DraftTick
  \/ state.frog.pos.y > -Px(60) /\ KeyDown("w")
  \/ state.frog.pos.y <= Px(20) /\ downs < MaxDraftDowns /\ KeyDown("s")
  \/ restarts < MaxDraftRestarts /\ Restart

SpecDraft == Init /\ [][NextDraft]_vars

\* ---------------------------------------------------------------------
\* Moves and spawns between Ticks
\* ---------------------------------------------------------------------

\* SpecFrame: ticks and spawn actions of the round
MaxFrameTicks == 1
MaxFrameSpawns == 1

\* the streams of SpecFrame: one of each kind of entity
FrameStreams == {"row1Car", "row5Plank", "addCroc", "addLadyFrog"}

\* A round as in SpecField with one stream of each kind.
NextFrame ==
  \/ StartGame
  \/ clock < MaxFrameTicks /\ Tick
  \/ \E key \in Keys \ DownKeys : clock < MaxFrameTicks /\ Walks(key) /\ KeyDown(key)
  \/ \E st \in FrameStreams :
       clock < MaxFrameTicks /\ Spawned < MaxFrameSpawns /\ Emit(st)

SpecFrame == Init /\ [][NextFrame]_vars

\* ---------------------------------------------------------------------
\* Passing levels
\* ---------------------------------------------------------------------

\* SpecPass: ticks of a round, highest level
MaxPassTicks == 5
MaxPassLevel == 2

\* Rounds in which the player walks up the middle column, reaches the goal
\* five times or falls into the river, and the next level follows a passed
\* one.
NextPass ==
  \/ StartGame
  \/ clock < MaxPassTicks /\ Tick
  \/ \E key \in UpKeys : state.frog.pos.y > Px(20) /\ KeyDown(key)
  \/ state.level < MaxPassLevel /\ NextLevel

SpecPass == Init /\ [][NextPass]_vars

\* ---------------------------------------------------------------------
\* The left edge
\* ---------------------------------------------------------------------

\* SpecEdge: ticks of the round, Down key presses
MaxEdgeTicks == 475
MaxEdgeDowns == 1

\* the plank of row 1 has come under the column of x = 20
Boarding ==
  /\ Len(state.planks) = 1
  /\ Px(20) <= state.planks[1].pos.x /\ state.planks[1].pos.x < Px(30)

\* A round in which the player walks to the column of x = 20 and up to the
\* edge of the road before the first Tick, waits there for the plank of row
\* 1, climbs onto it, rides it towards the left edge and steps up to the goal
\* row and past it; the player also steps down from the start row.
NextEdge ==
  \/ StartGame
  \/ /\ clock < MaxEdgeTicks
     /\ state.frog.pos.y > Px(20) \/ Len(state.frogOnPlank) > 0
     /\ Tick
  \/ clock = 0 /\ Emit("row1Plank")
  \/ \E key \in LeftKeys :
       /\ clock = 0
       /\ state.frog.pos.y = StartRow /\ state.frog.pos.x > Px(20)
       /\ KeyDown(key)
  \/ \E key \in DownKeys :
       /\ clock = 0 /\ downs < MaxEdgeDowns
       /\ state.frog.pos.y = StartRow
       /\ KeyDown(key)
  \/ \E key \in UpKeys :
       /\ state.frog.pos.x <= Px(20) /\ state.frog.pos.y > -Px(20)
       /\ state.frog.pos.y > Px(300) => clock = 0
       /\ (state.frog.pos.y <= Px(300) /\ state.frog.pos.y > Px(60)) => Boarding
       /\ KeyDown(key)

SpecEdge == Init /\ [][NextEdge]_vars

\* ---------------------------------------------------------------------
\* Keys after game over
\* ---------------------------------------------------------------------

\* a keydown after game over: each keydown subscription of updateView runs
\* its handler, which restarts on 'r' and does nothing on another key
OverKey(key) ==
  /\ phase = "over"
  /\ IF key = "r" /\ keyDowns > 0 THEN Restart ELSE UNCHANGED vars

\* SpecOver: ticks of a round, restarts of the session
MaxOverTicks == 3
MaxOverRestarts == 2

\* Rounds in which the player walks up the middle column, dies in the river
\* and keys are pressed on the game-over screen; 'r' is also pressed while a
\* round runs.
NextOver ==
  \/ StartGame
  \/ clock < MaxOverTicks /\ Tick
  \/ \E key \in UpKeys \cup {"r"} : state.frog.pos.y > Px(20) /\ KeyDown(key)
  \/ \E key \in Keys : restarts < MaxOverRestarts /\ OverKey(key)

SpecOver == Init /\ [][NextOver]_vars

\* ---------------------------------------------------------------------
\* The wrap functions on their own
\* ---------------------------------------------------------------------

\* SpecWrap: the arguments reach MaxProbe steps of 10 pixels to either side
\* of the origin
MaxProbe == 200
\* SpecWrap: applications of a wrap function to its own result
MaxApply == 2
\* SpecWrap: movement steps of a car
MaxCarSteps == 3
\* SpecWrap: a car starts at most this many units off the position from which
\* one step takes it exactly onto the wrap threshold
MaxOff == 1

WrapKinds == {"wrap", "wrapPlank", "wrapLadyFrog"}

\* radii of a car, of the lady frog and of planks
ProbeRadii == {Px(10), Px(20), Px(70), Px(130)}

ProbeXs == {Px(10) * k : k \in -MaxProbe..MaxProbe}

\* the speeds of the cars of the six rows at level 1, in units per tick
ProbeSpeeds == {RatUnits(CarSpeedRat(initialState, row)) : row \in Rows}

\* the wrap function named kind, applied to x
WrapBy(kind, x, r) ==
  IF kind = "wrap" THEN wrap(x, r)
  ELSE IF kind = "wrapPlank" THEN wrapPlank(x, r)
  ELSE wrapLadyFrog(x, r)

\* arguments of a wrap function
WrapProbes ==
  {[kind |-> kind, x0 |-> x, x |-> x, r |-> r, d |-> 0, v |-> 0, n |-> 0] :
     kind \in WrapKinds, x \in ProbeXs, r \in ProbeRadii}

\* x of a car of direction d and speed v that one step takes off units past
\* the wrap threshold
CarStart(d, v, off) ==
  IF d = 0 THEN Px(Width) - Px(10) - v - off ELSE -Px(10) + v + off

\* cars one step before the wrap threshold
CarProbes ==
  {[kind |-> "car", x0 |-> CarStart(d, v, off), x |-> CarStart(d, v, off),
    r |-> Px(10), d |-> d, v |-> v, n |-> 0] :
     d \in {0, 1}, v \in ProbeSpeeds, off \in -MaxOff..MaxOff}

\* the car a probe stands for, at position x
ProbeCar(p, x) ==
  [id |-> "car0", pos |-> [x |-> x, y |-> Px(330)], createTime |-> 0,
   radius |-> p.r, direction |-> p.d, speed |-> p.v]

InitWrap ==
  /\ state = initialState
  /\ phase = "seed"
  /\ clock = 0
  /\ taken = [st \in Streams |-> 0]
  /\ filled = {}
  /\ downs = 0
  /\ restarts = 0
  /\ pickups = 0
  /\ held = "none"
  /\ repeats = 0
  /\ ups = 0
  /\ subscriptions = 0
  /\ keyDowns = 0
  /\ probe \in WrapProbes \cup CarProbes

Others == <<state, phase, clock, taken, filled, downs, restarts, pickups, held, repeats,
            ups, subscriptions, keyDowns>>

\* one call of a wrap function on the result of the call before
ApplyWrap ==
  /\ probe.kind \in WrapKinds
  /\ probe.n < MaxApply
  /\ probe' = [probe EXCEPT !.x = WrapBy(probe.kind, probe.x, probe.r),
                            !.n = probe.n + 1]
  /\ UNCHANGED Others

\* one movement step of the car
CarStep ==
  /\ probe.kind = "car"
  /\ probe.n < MaxCarSteps
  /\ probe' = [probe EXCEPT
                 !.x = moveCar(ProbeCar(probe, probe.x), probe.d, probe.v).pos.x,
                 !.n = probe.n + 1]
  /\ UNCHANGED Others

NextWrap == ApplyWrap \/ CarStep

SpecWrap == InitWrap /\ [][NextWrap]_vars

\* ---------------------------------------------------------------------
\* Geometry of the claims, in pixels, written out from the layout
\* ---------------------------------------------------------------------

\* the position the player has on a Tick after the movement step
PostFrog(s) ==
  IF Len(s.frogOnPlank) > 0
  THEN [x |-> IF s.frogOnPlank[1].direction = 1
              THEN s.frog.pos.x - s.frogOnPlank[1].speed
              ELSE s.frog.pos.x + s.frogOnPlank[1].speed,
        y |-> s.frog.pos.y]
  ELSE s.frog.pos

\* the player (a 20 x 20 box centred at f) overlaps a car of r (20 x 20)
OverCar(f, r) ==
  \E i \in 1..Len(r.cars) :
    /\ Abs(f.x - (r.cars[i].pos.x + Px(10))) < Px(20)
    /\ Abs(f.y - (r.cars[i].pos.y + Px(10))) < Px(20)

\* the player overlaps a plank of r (2 radiusX x 20)
OverPlank(f, r) ==
  \E i \in 1..Len(r.planks) :
    /\ Abs(f.x - (r.planks[i].pos.x + r.planks[i].radiusX)) < Px(10) + r.planks[i].radiusX
    /\ Abs(f.y - (r.planks[i].pos.y + Px(10))) < Px(20)

\* the player overlaps the river (600 x 240 from (0, 40))
OverRiver(f) == Abs(f.x - Px(300)) < Px(310) /\ Abs(f.y - Px(160)) < Px(130)

\* the player overlaps one of the five goal slots (40 x 40 from (120 n + 40, 0))
OverGoal(f) ==
  \E n \in 0..4 : Abs(f.x - Px(120 * n + 60)) < Px(30) /\ Abs(f.y - Px(20)) < Px(30)

\* the player overlaps the lady frog of r
OverLady(f, r) ==
  /\ r.ladyFrog # NULL
  /\ Abs(f.x - (r.ladyFrog.pos.x + Px(10))) < Px(20)
  /\ Abs(f.y - (r.ladyFrog.pos.y + Px(10))) < Px(20)

\* the player overlaps the crocodile of r (2 radiusX x 20)
OverCroc(f, r) ==
  /\ r.crocodile # NULL
  /\ Abs(f.x - (r.crocodile.pos.x + r.crocodile.radiusX)) < Px(10) + r.crocodile.radiusX
  /\ Abs(f.y - (r.crocodile.pos.y + Px(10))) < Px(20)

OffSide(f) == f.x - Px(10) > Px(600) \/ f.x + Px(10) < 0

AllTargets == {"target1", "target2", "target3", "target4", "target5"}

\* every Move the reducer can be handed by controlFrog, and the other steps
Moves == {MoveAct(Px(dx), Px(dy), a) : dx \in {-40, 0, 40}, dy \in {-40, 0, 40}, a \in BOOLEAN}

\* the Create actions of the streams that state s can reduce exactly
Creates(s) ==
  {StreamAction(st) : st \in {x \in Streams :
      x \in CarStreams => RatExact(CarSpeedRat(s, StreamAction(x).row_no))}}
  \cup {CreateTargetAct(n) : n \in 0..4}

\* ---------------------------------------------------------------------
\* Claims
\* ---------------------------------------------------------------------

\* C1: in every state reachable from initialState by reducer actions and
\* resetState transitions, highscore >= score; a Tick keeps it so also when
\* the bonus is held.
C1_HighscoreAtLeastScore ==
  /\ state.highscore >= state.score
  /\ phase = "running" =>
       LET r == tick([state EXCEPT !.frogPicksUpLadyFrog = TRUE], clock)
       IN r.highscore >= r.score

\* a goal reward earned after a restart, below the highscore of the first round
C1_Witness ==
  /\ restarts = 1
  /\ state.frogInTargetCount = 1
  /\ state.highscore > state.score

\* C2: highscore never decreases: no reducer action lowers it, and neither the
\* game-over reset nor the next-level transition changes it.
C2_HighscoreNeverDecreases ==
  [][/\ state'.highscore >= state.highscore
     /\ phase \in {"over", "passed"} => state'.highscore = state.highscore]_vars

\* both transitions have been taken with a positive highscore
C2_Witness ==
  /\ phase = "seed"
  /\ restarts = 1
  /\ state.level = 2
  /\ state.highscore > 0

\* C3: under the driver passedLevel holds exactly when frogInTargetCount = 5;
\* the counter rises by exactly 1 on a Tick on which the player overlaps a goal
\* slot, is left alone by a Tick without overlap and by every Move and Create
\* action, and never exceeds 5.
C3_PassedIffFiveGoals ==
  /\ state.passedLevel <=> state.frogInTargetCount = 5
  /\ state.frogInTargetCount <= 5
  /\ \A e \in Moves \cup Creates(state) :
       reduceState(state, e).frogInTargetCount = state.frogInTargetCount
  /\ phase = "running" =>
       tick(state, clock).frogInTargetCount =
         state.frogInTargetCount + (IF OverGoal(PostFrog(state)) THEN 1 ELSE 0)

C3_Witness == state.passedLevel /\ state.frogInTargetCount = 5

\* C4: whenever passedLevel is true, each of target1..target5 has been reached
\* since the level began.
C4_PassedOnlyWithAllSlotsFilled == state.passedLevel => filled = AllTargets

\* C5: after every Tick, gameOver holds exactly when, on the positions after
\* the movement step, the player overlaps a car, or overlaps the river and no
\* plank, or is off either side.
C5_GameOverIffHazard ==
  phase = "running" =>
    LET r == tick(state, clock)
        f == PostFrog(state)
    IN r.gameOver <=> (OverCar(f, r) \/ (OverRiver(f) /\ ~OverPlank(f, r)) \/ OffSide(f))

\* a Tick has found the player under a car
C5_Witness ==
  /\ clock > 0
  /\ state.gameOver
  /\ OverCar(state.frog.pos, state)

\* C6: a Tick on which the player overlaps a plank and the river yields
\* gameOver = false.
C6_PlankBeatsRiver ==
  phase = "running" =>
    LET r == tick(state, clock)
        f == PostFrog(state)
    IN (OverPlank(f, r) /\ OverRiver(f)) => ~r.gameOver

\* a Tick has found the player on a plank in the river, and the game goes on
C6_Witness ==
  /\ clock > 0
  /\ Len(state.frogOnPlank) > 0
  /\ OverRiver(state.frog.pos)
  /\ ~state.gameOver

\* C7: a Tick on which the player overlaps a goal slot puts the player at
\* (300, 580), adds 1 to frogInTargetCount, adds 50 to the score, or 250 when
\* the bonus is held, and leaves the bonus-held flag false.
C7_GoalReward ==
  phase = "running" =>
    LET r == tick(state, clock)
        f == PostFrog(state)
    IN OverGoal(f) =>
         /\ r.frog.pos = [x |-> Px(300), y |-> Px(580)]
         /\ r.frogInTargetCount = state.frogInTargetCount + 1
         /\ r.score = state.score + (IF state.frogPicksUpLadyFrog THEN 250 ELSE 50)
         /\ ~r.frogPicksUpLadyFrog

\* the goal reached with the bonus held: 6 + 14 moves, 14 of them scoring, + 250
C7_Witness ==
  /\ Len(state.hasFrogTarget) > 0
  /\ state.ladyFrog # NULL
  /\ state.score = 140 + 250
  /\ ~state.frogPicksUpLadyFrog

\* C8: a Tick on which the player, carried by no plank, overlaps a car and no
\* goal slot, plank or lady frog sets gameOver and keeps score, highscore, the
\* player's position, frogInTargetCount, level, the bonus-held flag and
\* passedLevel.
C8_CarHitOnlySetsGameOver ==
  phase = "running" =>
    LET r == tick(state, clock)
        f == state.frog.pos
    IN (/\ Len(state.frogOnPlank) = 0
        /\ OverCar(f, r)
        /\ ~OverGoal(f) /\ ~OverPlank(f, r) /\ ~OverLady(f, r))
       => /\ r.gameOver
          /\ r.score = state.score
          /\ r.highscore = state.highscore
          /\ r.frog.pos = state.frog.pos
          /\ r.frogInTargetCount = state.frogInTargetCount
          /\ r.level = state.level
          /\ r.frogPicksUpLadyFrog = state.frogPicksUpLadyFrog
          /\ r.passedLevel = state.passedLevel

\* a Tick has found the player under a car, on no plank, with a score
C8_Witness ==
  /\ clock > 0
  /\ state.gameOver
  /\ OverCar(state.frog.pos, state)
  /\ Len(state.frogOnPlank) = 0
  /\ state.score > 0

\* C9: for every Move(dx, dy, addScore) the reducer returns the player at
\* exactly (x + dx, y + dy), the score raised by 10 exactly when addScore, and
\* gameOver as it was; (300, 580) with Move(0, -40, true) gives (300, 540).
C9_MoveIsExact ==
  /\ \A e \in Moves :
       LET r == reduceState(state, e)
       IN /\ r.frog.pos = [x |-> state.frog.pos.x + e.x, y |-> state.frog.pos.y + e.y]
          /\ r.score = state.score + (IF e.addScore THEN 10 ELSE 0)
          /\ r.gameOver = state.gameOver
  /\ \A key \in Keys : controlFrog(key) \in Moves
  /\ state.frog.pos = [x |-> Px(300), y |-> Px(580)] =>
       reduceState(state, controlFrog("w")).frog.pos = [x |-> Px(300), y |-> Px(540)]

\* the player one step beyond the right edge after eight Moves, no game over
C9_Witness ==
  /\ state.frog.pos = [x |-> Px(620), y |-> Px(580)]
  /\ state.score = 0
  /\ ~state.gameOver

\* C10: resetState of a state with gameOver set is initialState in every field
\* but highscore, which is kept, also when passedLevel is set and also from a
\* later level.
C10_GameOverResetIsInitial ==
  \A p \in BOOLEAN :
    \A base \in {state, resetPassedLevel(state)} :
      LET s == [base EXCEPT !.gameOver = TRUE, !.passedLevel = p]
      IN resetState(s) = [initialState EXCEPT !.highscore = s.highscore]

\* a game-over state that differs from initialState in the collections too
C10_Witness ==
  /\ state.gameOver
  /\ state.highscore > 0
  /\ Len(state.cars) > 0
  /\ Len(state.targets) = 5

\* a state on which updateView starts the next level, whose speeds the model
\* can compute
Passed(s) == s.passedLevel /\ ~s.gameOver /\ RatFits(s)

\* C11: resetState of a state with passedLevel set and gameOver not set has
\* level + 1, every carSpeed multiplied by multiplier, no cars, planks,
\* targets, crocodile or lady frog, the id counters and the goal counter at 0,
\* the player at (300, 580), both flags false, and the score, highscore and
\* multiplier of the state.
C11_NextLevelReset ==
  Passed(state) =>
    LET r == resetState(state)
    IN /\ r.level = state.level + 1
       /\ \A i \in Rows : r.carSpeed[i] = RatMul(state.carSpeed[i], state.multiplier)
       /\ Len(r.carSpeed) = 6
       /\ r.cars = <<>> /\ r.planks = <<>> /\ r.targets = <<>>
       /\ r.crocodile = NULL /\ r.ladyFrog = NULL
       /\ r.carCount = 0 /\ r.plankCount = 0 /\ r.frogInTargetCount = 0
       /\ r.frog.pos = [x |-> Px(300), y |-> Px(580)]
       /\ ~r.passedLevel /\ ~r.gameOver
       /\ r.score = state.score
       /\ r.highscore = state.highscore
       /\ r.multiplier = state.multiplier

\* the second level passed with a plank on the field
C11_Witness ==
  /\ state.passedLevel /\ ~state.gameOver
  /\ state.level = 2
  /\ Len(state.planks) > 0
  /\ state.score = 2 * 5 * (140 + 50)

\* C12: a next-level transition from a level other than 5 leaves carNum and
\* plankNum as they were before the transition.
C12_CountsKeptOffMilestone ==
  (Passed(state) /\ state.level # 5) =>
    LET r == resetState(state)
    IN r.carNum = state.carNum /\ r.plankNum = state.plankNum

MilestonePlankChange == <<0, 0, -1, -1, 0, -1>>

C14_LevelOnlyByReset ==
  /\ state.level >= 1
  /\ \A a \in {TickAct(clock)} \cup Moves \cup Creates(state) :
       reduceState(state, a).level = state.level
  /\ state.gameOver => resetState(state).level = 1
  /\ (state.passedLevel /\ ~state.gameOver) =>
       /\ resetState(state).level = state.level + 1
       /\ state.frogInTargetCount = 5
  /\ phase = "seed" => scan(state, addTarget(0)).level = state.level

\* back on level 1 by a restart from a game over on level 2
C14_Witness ==
  /\ restarts = 1
  /\ state.level = 1
  /\ state.highscore >= 5 * (140 + 50) + 10
  /\ phase = "running"

\* C15: from a state with gameOver or passedLevel set the only step is to
\* resetState of that state, handed to a new startGame; no action of the
\* round is reduced on it.
C15_TerminalStateIsReset ==
  [][(state.gameOver \/ state.passedLevel) =>
       (state' = resetState(state) /\ phase' = "seed")]_vars

\* a session in which both transitions have happened: a restart, then level 2
C15_Witness ==
  /\ restarts = 1
  /\ state.level = 2
  /\ phase = "running"

\* C16: resetState of a state with neither flag set is that state.
C16_ResetKeepsRunningState ==
  (~state.gameOver /\ ~state.passedLevel) => resetState(state) = state

\* a running state that differs from every reset state
C16_Witness ==
  /\ phase = "running"
  /\ Len(state.cars) > 0
  /\ state.score > 0
  /\ state.cars[1].pos.x > 0

\* C17: in every round the five CreateTarget actions, slots 0..4 in order, are
\* reduced before any other action: whenever a Tick, a Move or a spawn action
\* can be reduced the targets are exactly target1..target5, and none of those
\* actions adds a target.
C17_FiveTargetsFirst ==
  /\ phase = "seed" => state.targets = <<>>
  /\ phase # "seed" =>
       /\ Len(state.targets) = 5
       /\ \A n \in 1..5 :
            /\ state.targets[n].id = "target" \o ToString(n)
            /\ state.targets[n].pos = [x |-> Px(120 * (n - 1) + 40), y |-> Px(0)]
  /\ \A a \in {TickAct(clock)} \cup Moves \cup (Creates(state) \ {CreateTargetAct(n) : n \in 0..4}) :
       reduceState(state, a).targets = state.targets

\* the third round of a session (a restart, then the next level) under way
C17_Witness ==
  /\ restarts = 1
  /\ state.level = 2
  /\ state.frogInTargetCount = 1
  /\ Len(state.targets) = 5

\* the cars and planks of a row, told by the y the factories give them
CarsOfRow(s, r) ==
  Cardinality({i \in 1..Len(s.cars) : s.cars[i].pos.y = Px(290 + r * 40)})

PlanksOfRow(s, r) ==
  Cardinality({i \in 1..Len(s.planks) : s.planks[i].pos.y = Px(10 + r * 40)})

RECURSIVE SumTo(_, _)
SumTo(q, n) == IF n = 0 THEN 0 ELSE q[n] + SumTo(q, n - 1)

\* C18: in a round at most carNum[r-1] cars and plankNum[r-1] planks are
\* created in row r (the cars and planks of a row are the emissions of its
\* stream), and at most one crocodile and one lady frog, so the cars are at
\* most the sum of carNum and the planks at most the sum of plankNum.
C18_SpawnsBounded ==
  /\ \A r \in Rows : /\ CarsOfRow(state, r) <= state.carNum[r]
                     /\ PlanksOfRow(state, r) <= state.plankNum[r]
  /\ phase # "seed" =>
       /\ \A st \in CarStreams : taken[st] = CarsOfRow(state, StreamAction(st).row_no)
       /\ \A st \in PlankStreams : taken[st] = PlanksOfRow(state, StreamAction(st).row_no)
       /\ taken["addCroc"] <= 1
       /\ taken["addLadyFrog"] <= 1
  /\ Len(state.cars) <= SumTo(state.carNum, 6)
  /\ Len(state.planks) <= SumTo(state.plankNum, 6)

\* rows 2 and 3 have all the cars their streams take, and the round goes on
C18_Witness ==
  /\ phase = "running"
  /\ CarsOfRow(state, 2) = 2 /\ state.carNum[2] = 2
  /\ CarsOfRow(state, 3) = 1 /\ state.carNum[3] = 1
  /\ Len(state.cars) = 3

\* C19: the cars have pairwise distinct ids and so have the planks; there are
\* carCount cars and plankCount planks; no reducer action lowers a counter,
\* and a resetState that lowers one sets it to 0 and empties the collection.
C19_IdsUnique ==
  /\ \A i, j \in 1..Len(state.cars) : i # j => state.cars[i].id # state.cars[j].id
  /\ \A i, j \in 1..Len(state.planks) : i # j => state.planks[i].id # state.planks[j].id
  /\ Len(state.cars) = state.carCount
  /\ Len(state.planks) = state.plankCount
  /\ \A a \in {TickAct(clock)} \cup {controlFrog(key) : key \in Keys} \cup Creates(state) :
       \A r \in {reduceState(state, a)} :
         /\ r.carCount >= state.carCount
         /\ r.plankCount >= state.plankCount
  /\ \A g, p \in BOOLEAN :
       \A r \in {resetState([state EXCEPT !.gameOver = g, !.passedLevel = p])} :
         /\ r.carCount < state.carCount => r.carCount = 0 /\ r.cars = <<>>
         /\ r.plankCount < state.plankCount => r.plankCount = 0 /\ r.planks = <<>>
         /\ r.carCount = Len(r.cars) /\ r.plankCount = Len(r.planks)

\* a restart has emptied the field and rows 1 and 4 have their planks again
C19_Witness ==
  /\ restarts = 1
  /\ state.plankCount = 4
  /\ PlanksOfRow(state, 1) = 2
  /\ PlanksOfRow(state, 4) = 2

\* the speeds of the plank streams, in units per tick
PlankSpeeds == {StreamAction(st).speed : st \in PlankStreams}

\* C20 (as claimed): on every Tick with a lady frog, her x advances by a
\* rightward speed and is then wrapped, on a plank or not.
C20_LadyFrogAlwaysMoves ==
  (phase = "running" /\ state.ladyFrog # NULL) =>
    \A r \in {tick(state, clock)} :
      \E v \in PlankSpeeds :
        r.ladyFrog.pos.x = wrapLadyFrog(state.ladyFrog.pos.x + v, state.ladyFrog.radius)

\* C20 (amended): on a Tick with a lady frog, if the collision pass of the
\* Tick before found a plank under her, her x advances by the speed of the
\* first such plank and then, if x - 10 > 600, goes back by 620; if it found
\* none, she stays where she is.
C20_LadyFrogRidesPlank ==
  (phase = "running" /\ state.ladyFrog # NULL) =>
    \A r \in {tick(state, clock)} :
      /\ r.ladyFrog.pos.y = state.ladyFrog.pos.y
      /\ r.ladyFrog.pos.x =
           IF Len(state.ladyFrogOnPlank) > 0
           THEN LET x == state.ladyFrog.pos.x + state.ladyFrogOnPlank[1].speed
                IN IF x - Px(10) > Px(600) THEN x - Px(620) ELSE x
           ELSE state.ladyFrog.pos.x

\* the lady frog has crossed the field on a plank and come back in on the left
C20_Witness ==
  /\ state.ladyFrog # NULL
  /\ state.ladyFrog.pos.x < 0
  /\ Len(state.planks) > 0

\* C21: within one level frogPicksUpLadyFrog is set by at most one Tick: once
\* it has been set and then cleared at a goal, no later Tick of the level sets
\* it again.
C21_BonusOncePerLevel == pickups <= 1

\* C22: a Tick on which the player, after the movement step, overlaps the
\* crocodile ends with gameOver set, whatever else has been spawned.
C22_CrocodileKills ==
  phase = "running" =>
    \A r \in {tick(state, clock)} : OverCroc(PostFrog(state), r) => r.gameOver

\* x lies in the wrap band of a car of the given radius
InCarBand(x, radius) == -radius <= x /\ x <= Px(600) - radius

\* x lies in the wrap band of a plank or crocodile of the given radiusX
InPlankBand(x, radiusX) == -(2 * radiusX) <= x /\ x <= Px(600)

\* every car, every plank and the crocodile of s lie in their bands
InBands(s) ==
  /\ \A i \in 1..Len(s.cars) : InCarBand(s.cars[i].pos.x, s.cars[i].radius)
  /\ \A i \in 1..Len(s.planks) : InPlankBand(s.planks[i].pos.x, s.planks[i].radiusX)
  /\ s.crocodile # NULL => InPlankBand(s.crocodile.pos.x, s.crocodile.radiusX)

\* C23: every car has -radius <= x <= 600 - radius and every plank and the
\* crocodile have -2 radiusX <= x <= 600, in every reachable state and after
\* the movement step of every Tick; every speed is below 600.
C23_EntitiesInBand ==
  /\ InBands(state)
  /\ InBands(moved(state, clock))
  /\ \A i \in 1..Len(state.cars) : state.cars[i].speed < Px(600)
  /\ \A i \in 1..Len(state.planks) : state.planks[i].speed < Px(600)

\* the crocodile, the last to reach its edge, has wrapped (from 460 leftwards
\* and in again on the right), after the cars of both directions and the planks
C23_Witness ==
  /\ state.crocodile # NULL /\ state.crocodile.pos.x > Px(460)
  /\ Len(state.planks) = 2 /\ state.planks[1].pos.x < Px(600 - 260)
  /\ Len(state.cars) = 4
  /\ \E i \in 1..4 : state.cars[i].direction = 0 /\ state.cars[i].pos.x < Px(100)
  /\ \E i \in 1..4 : state.cars[i].direction = 1 /\ state.cars[i].pos.x > Px(500)

\* ---------------------------------------------------------------------
\* Claims C24 to C26: the wrap functions
\* ---------------------------------------------------------------------

\* x satisfies what kind's wrap function is said to establish: the band of a
\* car, the band of a plank, at most 600 + radius for the lady frog
InBandOf(kind, x, r) ==
  IF kind = "wrap" THEN InCarBand(x, r)
  ELSE IF kind = "wrapPlank" THEN InPlankBand(x, r)
  ELSE x <= Px(600) + r

\* x lies less than one period of kind's wrap function outside its band, or
\* inside it
OnePeriodOff(kind, x, r) ==
  IF kind = "wrap" THEN -Px(600) - r <= x /\ x <= Px(1200) - r
  ELSE IF kind = "wrapPlank" THEN -Px(600) - 3 * r <= x /\ x <= Px(1200) + r
  ELSE x <= Px(1220) + r

\* x is obtained from an in-band position by one movement step of a speed
\* below 600 pixels (the lady frog only moves rightwards)
OneStepOff(kind, x, r) ==
  IF kind = "wrap" THEN -r - Px(600) < x /\ x < Px(1200) - r
  ELSE IF kind = "wrapPlank" THEN -(2 * r) - Px(600) < x /\ x < Px(1200)
  ELSE x < Px(1200) + r

\* C24 as stated: one call of a wrap function maps any x into the band of
\* that function.
C24_AnyInputIntoBand ==
  probe.kind \in WrapKinds =>
    InBandOf(probe.kind, WrapBy(probe.kind, probe.x0, probe.r), probe.r)

\* C24 amended: one call shifts by one period at most, so its result is in
\* band exactly for the arguments up to one period outside the band.
C24_OnePeriodIntoBand ==
  probe.kind \in WrapKinds =>
    (InBandOf(probe.kind, WrapBy(probe.kind, probe.x0, probe.r), probe.r)
       <=> OnePeriodOff(probe.kind, probe.x0, probe.r))

\* one call has taken an argument left of the band of a car into it
C24_Witness ==
  /\ probe.kind = "wrap" /\ probe.n = 1
  /\ probe.x0 < -probe.r
  /\ InCarBand(probe.x, probe.r)

\* C25: a wrap function leaves an in-band x as it is, and applied twice to an
\* x one movement step (speed below 600) off the band it gives what one
\* application gives.
C25_WrapIdempotent ==
  probe.kind \in WrapKinds =>
    /\ InBandOf(probe.kind, probe.x0, probe.r)
         => WrapBy(probe.kind, probe.x0, probe.r) = probe.x0
    /\ OneStepOff(probe.kind, probe.x0, probe.r)
         => WrapBy(probe.kind, WrapBy(probe.kind, probe.x0, probe.r), probe.r)
              = WrapBy(probe.kind, probe.x0, probe.r)

\* a plank one step right of its band has been wrapped twice and lies where
\* the first call put it
C25_Witness ==
  /\ probe.kind = "wrapPlank" /\ probe.n = 2
  /\ probe.x0 > Px(600) /\ probe.x0 < Px(1200)
  /\ probe.x = probe.x0 - Px(600) - probe.r

\* the x of the probed car after one step without the wrap
Stepped(p, x) == IF p.d = 1 THEN x - p.v ELSE x + p.v

\* the x of the probed car after one step on the wrap threshold
OnThreshold(p, x) ==
  IF p.d = 1 THEN Stepped(p, x) + p.r = 0 ELSE Stepped(p, x) + p.r = Px(600)

\* the x of the probed car at x after one call of moveCar
CarNext(p, x) == moveCar(ProbeCar(p, x), p.d, p.v).pos.x

\* 600 pixels towards the edge the probed car comes in from
Reflected(p, x) == IF p.d = 1 THEN x + Px(600) ELSE x - Px(600)

\* C26 as stated: the step that puts a car exactly on the wrap threshold
\* shifts it by 600 to the opposite edge, and the following step does not
\* shift it again.
C26_ThresholdReflects ==
  (probe.kind = "car" /\ OnThreshold(probe, probe.x)) =>
    \A x1 \in {CarNext(probe, probe.x)} :
      /\ x1 = Reflected(probe, Stepped(probe, probe.x))
      /\ CarNext(probe, x1) = Stepped(probe, x1)

\* C26 amended: the step that puts a car exactly on the wrap threshold does
\* not shift it; the following step shifts it by exactly 600, and the step
\* after that does not shift it again.
C26_ThresholdThenReflects ==
  (probe.kind = "car" /\ OnThreshold(probe, probe.x)) =>
    \A x1 \in {CarNext(probe, probe.x)} :
      \A x2 \in {CarNext(probe, x1)} :
        /\ x1 = Stepped(probe, probe.x)
        /\ x2 = Reflected(probe, Stepped(probe, x1))
        /\ CarNext(probe, x2) = Stepped(probe, x2)

\* a car moving right has stepped onto the threshold, past it and once more
C26_Witness ==
  /\ probe.kind = "car" /\ probe.d = 0 /\ probe.n = 3
  /\ probe.x0 + probe.v + probe.r = Px(600)
  /\ probe.x = probe.x0 + 3 * probe.v - Px(600)

\* ---------------------------------------------------------------------
\* Claims C27 to C30: input and the reducer
\* ---------------------------------------------------------------------

\* C27: w and ArrowUp give Move(0, -40, true), a and ArrowLeft Move(-40, 0,
\* false), s and ArrowDown Move(0, 40, false), d and ArrowRight Move(40, 0,
\* false), any other key Move(0, 0, false); and reducing Move(0, 0, false)
\* gives back the state in every field.
C27_KeyToMove ==
  /\ \A key \in Keys :
       controlFrog(key) =
         IF key \in {"w", "ArrowUp"} THEN MoveAct(0, -Px(40), TRUE)
         ELSE IF key \in {"a", "ArrowLeft"} THEN MoveAct(-Px(40), 0, FALSE)
         ELSE IF key \in {"s", "ArrowDown"} THEN MoveAct(0, Px(40), FALSE)
         ELSE IF key \in {"d", "ArrowRight"} THEN MoveAct(Px(40), 0, FALSE)
         ELSE MoveAct(0, 0, FALSE)
  /\ \A key \in {"r", "x"} : reduceState(state, controlFrog(key)) = state
  /\ reduceState(state, MoveAct(0, 0, FALSE)) = state

\* the player has gone right and up in a round with an entity on the field
C27_Witness ==
  /\ phase = "running"
  /\ state.frog.pos.x > Px(300) /\ state.frog.pos.y < StartRow
  /\ state.score = state.highscore /\ state.score > 0
  /\ Spawned = 1

\* C28: a keydown event sent while a key is held (repeat = true) produces no
\* Move; only the first press of a key does.
C28_NoAutoRepeat == repeats = 0

\* the fields of the state an action of type may change
Touched(type) ==
  IF type = "Move" THEN {"frog", "score", "highscore"}
  ELSE IF type = "CreateCar" THEN {"cars", "carCount"}
  ELSE IF type = "CreatePlank" THEN {"planks", "plankCount"}
  ELSE IF type = "CreateTarget" THEN {"targets"}
  ELSE IF type = "CreateCrocodile" THEN {"crocodile"}
  ELSE IF type = "CreateLadyFrog" THEN {"ladyFrog"}
  ELSE DOMAIN state

\* r is s but for the fields the action e may change, of the player only the
\* position has changed, and the cars and planks of s are still in place
OnlyTouched(s, e, r) ==
  /\ \A f \in DOMAIN s \ Touched(e.type) : r[f] = s[f]
  /\ r.frog = [s.frog EXCEPT !.pos = r.frog.pos]
  /\ SubSeq(r.cars, 1, Len(s.cars)) = s.cars
  /\ SubSeq(r.planks, 1, Len(s.planks)) = s.planks

\* the actions the reducer takes besides Tick: the Move of every key, the
\* Create action of every stream and CreateTarget
NonTickActions ==
  {controlFrog(key) : key \in Keys} \cup {StreamAction(st) : st \in Streams}
    \cup {CreateTargetAct(n) : n \in 0..4}

\* C29: a Move changes only the player's position, the score and the
\* highscore, and a Create action only its own collection (and the id counter
\* for cars and planks); time, the positions of the entities, frogOnPlank,
\* ladyFrogOnPlank, hasFrogTarget, frogPicksUpLadyFrog, frogInTargetCount,
\* passedLevel and gameOver are left to Tick.
C29_OnlyTickCollides ==
  \A e \in NonTickActions : OnlyTouched(state, e, reduceState(state, e))

\* the player stands in the river away from every plank, moved there by keys,
\* and the round still runs
C29_Witness ==
  /\ phase = "running" /\ ~state.gameOver
  /\ state.frog.pos.y < Px(260) /\ state.frog.pos.y > Px(20)
  /\ Len(state.planks) = 0
  /\ Len(state.cars) = 1

\* ---------------------------------------------------------------------
\* Claims C31 to C39
\* ---------------------------------------------------------------------

\* the x of the player of s carried by the first plank stored in s
Carried(s) ==
  IF s.frogOnPlank[1].direction = 1 THEN s.frog.pos.x - s.frogOnPlank[1].speed
  ELSE s.frog.pos.x + s.frogOnPlank[1].speed

\* C31 as stated: a Tick changes the player's x if and only if the stored
\* frogOnPlank is non-empty, and then by the speed of its first plank in that
\* plank's direction.
C31_CarriedIffStored ==
  phase = "running" =>
    \A r \in {tick(state, clock)} :
      /\ r.frog.pos.x # state.frog.pos.x <=> Len(state.frogOnPlank) > 0
      /\ Len(state.frogOnPlank) > 0 => r.frog.pos.x = Carried(state)

\* C31 amended: that holds of a Tick that reaches no goal slot; a Tick that
\* reaches one puts the player at (300, 580).
C31_CarriedUnlessGoal ==
  phase = "running" =>
    \A r \in {tick(state, clock)} :
      IF Len(r.hasFrogTarget) > 0
      THEN r.frog.pos = [x |-> Px(300), y |-> Px(580)]
      ELSE /\ r.frog.pos.x # state.frog.pos.x <=> Len(state.frogOnPlank) > 0
           /\ Len(state.frogOnPlank) > 0 => r.frog.pos.x = Carried(state)
           /\ r.frog.pos.y = state.frog.pos.y

\* the player has been carried by the plank of row 5 and has left it upwards
\* since the last Tick, with the plank still stored
C31_Witness ==
  /\ phase = "running"
  /\ Len(state.frogOnPlank) > 0
  /\ state.frog.pos.y < Px(220)
  /\ state.frog.pos.x > Px(60) /\ state.frog.pos.x < Px(100)

\* a car of the given row, 10 * k pixels from the left edge
CarAt(s, row_number, k) ==
  [createCar(s, row_number, (row_number + 1) % 2) EXCEPT !.pos.x = Px(10) * k]

\* C32: no state has gameOver and passedLevel both true, and a Tick that
\* finds the player on a goal slot finds no car hit, river fall or
\* out-of-bounds, wherever a car of rows 1 to 6 stands.
C32_NeverOverAndPassed ==
  /\ ~(state.gameOver /\ state.passedLevel)
  /\ Len(state.hasFrogTarget) > 0 => ~state.gameOver
  /\ (phase = "running" /\ state.frog.pos.y < Px(60)) =>
       \A row \in Rows : \A k \in 0..58 :
         \A r \in {tick([state EXCEPT !.cars = <<CarAt(state, row, k)>>], clock)} :
           Len(r.hasFrogTarget) > 0 => ~r.gameOver

\* the level has been passed, the fifth goal Tick having set no gameOver
C32_Witness ==
  /\ state.passedLevel /\ ~state.gameOver
  /\ Len(state.hasFrogTarget) = 1
  /\ state.score >= 5 * 140

\* C33: a Tick that rewards a goal comes after at least 14 scoring Moves
\* since the round began or since the reward before; it leaves the player
\* at (300, 580), so the Tick that follows it rewards nothing and leaves the
\* score as it is.
C33_FourteenUpsPerGoal ==
  /\ state.frog.pos.y >= Px(580) - Px(40) * ups
  /\ phase = "running" =>
       \A r \in {tick(state, clock)} :
         Len(r.hasFrogTarget) > 0 =>
           /\ ups >= 14
           /\ r.frog.pos = [x |-> Px(300), y |-> Px(580)]
           /\ \A r2 \in {tick(r, clock + 1)} :
                Len(r2.hasFrogTarget) = 0 /\ r2.score = r.score

\* a goal has just been rewarded in a round in which the player also stepped
\* back once
C33_Witness ==
  /\ phase = "running"
  /\ Len(state.hasFrogTarget) = 1 /\ ups = 0 /\ downs = 1
  /\ state.frog.pos = [x |-> Px(300), y |-> Px(580)]
  /\ state.score >= 15 * 10 + 100

\* the crocodiles a state may hold: none, or the one CreateCrocodile makes,
\* 20 * k pixels from the left edge
Crocodiles(s) ==
  {NULL} \cup {[createCrocodile(s, 1, 1, U, Px(70), Px(10)) EXCEPT !.pos.x = Px(20) * k] :
                k \in -7..30}

\* s without its crocodile
NoCrocodile(s) == [s EXCEPT !.crocodile = NULL]

\* the actions of a round: the Tick, the Move of every key, every Create
StepActions == {TickAct(clock)} \cup NonTickActions

OverStep ==
  phase = "over" =>
    \/ UNCHANGED vars
    \/ /\ state' = resetState(state)
       /\ restarts' = restarts + 1
       /\ keyDowns' = 0 /\ subscriptions' = 0

\* C36: a game-over state has one keydown subscription and no game
\* subscription, so its round reduces no Move; only 'r' starts a round, once;
\* in a running round no keydown subscription is left and 'r' is a Move that
\* changes nothing.
C36_RestartOnceOnR ==
  /\ [](keyDowns = IF phase = "over" THEN 1 ELSE 0)
  /\ [](phase = "over" => subscriptions = 0)
  /\ [](phase = "running" => reduceState(state, controlFrog("r")) = state)
  /\ [][OverStep]_vars

\* the round after a restart is being played
C36_Witness ==
  /\ phase = "running" /\ restarts = 1
  /\ keyDowns = 0 /\ subscriptions = 1
  /\ state.score > 0

\* the kind of an action: Move, or what a Create action creates
KindOf(e) == e.type

\* C37: two Create actions of different kinds, and a Create action and a
\* Move, reduced in either order from the same state give the same state.
C37_CreatesCommute ==
  phase = "running" =>
    \A a \in NonTickActions : \A b \in NonTickActions :
      (KindOf(a) # KindOf(b)) =>
        reduceState(reduceState(state, a), b) = reduceState(reduceState(state, b), a)

\* a round in which a plank and the crocodile have come in and the player
\* has walked, before the first Tick
C37_Witness ==
  /\ phase = "running" /\ clock = 0
  /\ state.crocodile # NULL /\ Len(state.planks) = 1
  /\ state.frog.pos.x > Px(300) /\ state.score > 0

\* the player of s is above the river or below the road
OffRows(s) == s.frog.pos.y <= Px(20) \/ s.frog.pos.y >= Px(580)

\* x lies between -10 and 610 pixels
InsideX(x) == -Px(10) <= x /\ x <= Px(610)

\* C38 as stated: a Tick on a state whose player is at y <= 20 or y >= 580
\* with x within [-10, 610], on no goal slot, gives gameOver = false.
C38_OffRowsSafe ==
  (phase = "running" /\ OffRows(state) /\ InsideX(state.frog.pos.x)
     /\ Len(hasFrogTargetNow(state)) = 0) =>
    ~tick(state, clock).gameOver

\* C38 amended: that holds when the x the Tick moves the player to, carried
\* by the first plank stored in frogOnPlank, is within [-10, 610] and on no
\* goal slot.
C38_OffRowsSafeAfterCarry ==
  (phase = "running" /\ OffRows(state)) =>
    \A r \in {tick(state, clock)} :
      IF InsideX(PostFrog(state).x)
      THEN Len(r.hasFrogTarget) = 0 => ~r.gameOver
      ELSE r.gameOver

\* the player has stepped past the goal row left of the first slot after
\* riding the plank of row 1, and a Tick has left the round running
C38_Witness ==
  /\ phase = "running" /\ clock > 0
  /\ state.frog.pos.y < 0
  /\ state.frog.pos.x < Px(20) /\ state.frog.pos.x >= -Px(10)
  /\ Len(state.frogOnPlank) = 0

\* C39: in the draft the highscore is at least the score in every state,
\* across rounds.
C39_DraftHighscoreAtLeastScore == state.highscore >= state.score

====
